---- MODULE Spec2Model ----
(***************************************************************************)
(* A model of LConfig (src/lconfig.py): the ordered key store, the         *)
(* resolve_name walk, the write-time adapters, the read-time converters    *)
(* and the LConfigProxy namespace views.                                   *)
(*                                                                         *)
(* Strings are sequences of one-character strings, so that startswith,     *)
(* endswith, split, join and strip are computed as Python computes them.   *)
(* A list of raw values is a sequence of such strings.                     *)
(***************************************************************************)
EXTENDS Integers, Sequences, FiniteSets, TLC

VARIABLES data, order, last

vars == <<data, order, last>>

(***************************************************************************)
(* Bounds of the model.                                                    *)
(***************************************************************************)
MaxValues == 2
MaxStr == 2
MaxParts == 3

(***************************************************************************)
(* String constants of the program.                                        *)
(***************************************************************************)
ADAPTER_PREFIX == <<".", "a", "d", "a", "p", "t">>
CONVERTER_PREFIX == <<".", "c", "o", "n", "v", "e", "r", "t">>
DEFAULT_PREFIX == <<".", "d", "e", "f", "a", "u", "l", "t">>
N_raw == <<"r", "a", "w">>
N_overwrite == <<"o", "v", "e", "r", "w", "r", "i", "t", "e">>
N_append == <<"a", "p", "p", "e", "n", "d">>
N_concat == <<"c", "o", "n", "c", "a", "t">>
N_append_default == <<"a", "p", "p", "e", "n", "d", "_", "d", "e", "f", "a", "u", "l", "t">>
N_append_delete == <<"a", "p", "p", "e", "n", "d", "_", "d", "e", "l", "e", "t", "e">>
N_append_remove == <<"a", "p", "p", "e", "n", "d", "_", "r", "e", "m", "o", "v", "e">>
N_listing == <<"l", "i", "s", "t", "i", "n", "g">>
N_json == <<"j", "s", "o", "n">>
N_default == <<"d", "e", "f", "a", "u", "l", "t">>
N_dot == <<"d", "o", "t">>
N_string == <<"s", "t", "r", "i", "n", "g">>
N_stringlist == <<"s", "t", "r", "i", "n", "g", "l", "i", "s", "t">>
N_stringjoin == <<"s", "t", "r", "i", "n", "g", "j", "o", "i", "n">>
N_interpolate == <<"i", "n", "t", "e", "r", "p", "o", "l", "a", "t", "e">>

\* _KEY_CHARS: string.ascii_lowercase + string.digits + "." + "_"
KEY_CHARS ==
    {"a", "b", "c", "d", "e", "f", "g", "h", "i", "j", "k", "l", "m",
     "n", "o", "p", "q", "r", "s", "t", "u", "v", "w", "x", "y", "z",
     "0", "1", "2", "3", "4", "5", "6", "7", "8", "9", ".", "_"}

\* the characters str.strip() removes
Whitespace == {" ", "\t", "\n", "\r"}

\* An exception that leaves through resolve_name: self._data[search_key][-1]
\* on an empty list.  No string of characters equals this marker.
IndexError == <<"IndexError">>

(***************************************************************************)
(* Python string primitives.                                               *)
(***************************************************************************)
Chars(s) == {s[i] : i \in 1..Len(s)}

startswith(s, p) == Len(p) <= Len(s) /\ SubSeq(s, 1, Len(p)) = p

endswith(s, p) == Len(p) <= Len(s) /\ SubSeq(s, Len(s) - Len(p) + 1, Len(s)) = p

\* s[n:]
DropPrefix(s, n) == SubSeq(s, n + 1, Len(s))

\* s.split(sep) for a one-character separator
RECURSIVE split(_, _)
split(s, sep) ==
    IF \A i \in 1..Len(s) : s[i] # sep
    THEN <<s>>
    ELSE LET i == CHOOSE j \in 1..Len(s) :
                      s[j] = sep /\ \A m \in 1..(j - 1) : s[m] # sep
         IN  <<SubSeq(s, 1, i - 1)>> \o split(SubSeq(s, i + 1, Len(s)), sep)

\* sep.join(parts)
RECURSIVE join(_, _)
join(parts, sep) ==
    IF parts = <<>> THEN <<>>
    ELSE IF Len(parts) = 1 THEN parts[1]
    ELSE parts[1] \o sep \o join(Tail(parts), sep)

\* s.strip()
RECURSIVE strip(_)
strip(s) ==
    IF s = <<>> THEN s
    ELSE IF s[1] \in Whitespace THEN strip(Tail(s))
    ELSE IF s[Len(s)] \in Whitespace THEN strip(SubSeq(s, 1, Len(s) - 1))
    ELSE s

\* [f(x) for x in seq if x]
RECURSIVE NonEmptyStripped(_)
NonEmptyStripped(parts) ==
    IF parts = <<>> THEN <<>>
    ELSE (IF strip(parts[1]) # <<>> THEN <<strip(parts[1])>> ELSE <<>>)
         \o NonEmptyStripped(Tail(parts))

\* s.lower()
UPPER == <<"A", "B", "C", "D", "E", "F", "G", "H", "I", "J", "K", "L", "M",
           "N", "O", "P", "Q", "R", "S", "T", "U", "V", "W", "X", "Y", "Z">>
LOWER == <<"a", "b", "c", "d", "e", "f", "g", "h", "i", "j", "k", "l", "m",
           "n", "o", "p", "q", "r", "s", "t", "u", "v", "w", "x", "y", "z">>

lower(s) ==
    [i \in 1..Len(s) |->
        IF \E j \in 1..26 : UPPER[j] = s[i]
        THEN LOWER[CHOOSE j \in 1..26 : UPPER[j] = s[i]]
        ELSE s[i]]

\* s.partition(sep): <<head, sep, tail>>, or <<s, "", "">> without sep
partition(s, sep) ==
    IF \A i \in 1..Len(s) : s[i] # sep
    THEN <<s, <<>>, <<>>>>
    ELSE LET i == CHOOSE j \in 1..Len(s) :
                      s[j] = sep /\ \A m \in 1..(j - 1) : s[m] # sep
         IN  <<SubSeq(s, 1, i - 1), <<sep>>, SubSeq(s, i + 1, Len(s))>>

\* make_prefix(prefix, key)
make_prefix(prefix, key) ==
    IF prefix # <<>> /\ ~endswith(prefix, <<".">>)
    THEN prefix \o <<".">> \o key
    ELSE prefix \o key

(***************************************************************************)
(* LConfig.resolve_name: d is self._data.                                  *)
(***************************************************************************)
\* the while loop of resolve_name probing the shortened key without the
\* trailing dot
RECURSIVE resolve_walk_no_dot(_, _, _, _)
resolve_walk_no_dot(d, key_parts, search_key, default) ==
    IF key_parts = <<>> THEN default
    ELSE IF search_key \in DOMAIN d
         THEN (IF d[search_key] = <<>> THEN IndexError
               ELSE d[search_key][Len(d[search_key])])
         ELSE LET popped == SubSeq(key_parts, 1, Len(key_parts) - 1)
              IN  resolve_walk_no_dot(d, popped, join(popped, <<".">>), default)

\* the while loop of resolve_name
RECURSIVE resolve_walk(_, _, _, _)
resolve_walk(d, key_parts, search_key, default) ==
    IF key_parts = <<>> THEN default
    ELSE IF search_key \in DOMAIN d
         THEN (IF d[search_key] = <<>> THEN IndexError
               ELSE d[search_key][Len(d[search_key])])
         ELSE LET popped == SubSeq(key_parts, 1, Len(key_parts) - 1)
              IN  resolve_walk(d, popped, join(popped, <<".">>) \o <<".">>, default)

\* resolve_name without the meta-key short cut
resolve_name_walks_meta(d, key, prefix, default) ==
    IF key = <<>> THEN default
    ELSE resolve_walk(d, <<prefix>> \o split(key, "."),
                      prefix \o <<".">> \o key, default)

resolve_name(d, key, prefix, default) ==
    IF startswith(key, <<".">>) THEN N_dot
    ELSE IF key = <<>> THEN default
    ELSE resolve_walk(d, <<prefix>> \o split(key, "."),
                      prefix \o <<".">> \o key, default)

(***************************************************************************)
(* class Adapter: each adapter maps (key, value, values, config) to the    *)
(* new list of raw values.  str(value) of a string is the string.          *)
(***************************************************************************)
\* raw that tests the value as append does
Adapter_raw_checked(d, key, value, values) ==
    IF value # <<>> THEN Append(values, value) ELSE values

Adapter_raw(d, key, value, values) == Append(values, value)

Adapter_overwrite(d, key, value, values) == <<value>>

\* append that does not test the value
Adapter_append_unchecked(d, key, value, values) == Append(values, value)

Adapter_append(d, key, value, values) ==
    IF value # <<>> THEN Append(values, value) ELSE values

\* concat that adds the value as a new element
Adapter_concat_grows(d, key, value, values) ==
    IF value # <<>> THEN Append(values, value) ELSE values

Adapter_concat(d, key, value, values) ==
    IF value # <<>>
    THEN (IF values = <<>> THEN <<value>>
          ELSE [values EXCEPT ![1] = values[1] \o value])
    ELSE values

\* append_default that appends the default to the list it was given
Adapter_append_default_keeps(d, key, value, values) ==
    IF value # <<>> THEN Append(values, value)
    ELSE Append(values, resolve_name(d, key, DEFAULT_PREFIX, <<>>))

Adapter_append_default(d, key, value, values) ==
    IF value # <<>> THEN Append(values, value)
    ELSE <<resolve_name(d, key, DEFAULT_PREFIX, <<>>)>>

\* append_delete that keeps the list on an empty value
Adapter_append_delete_keeps(d, key, value, values) ==
    IF value # <<>> THEN Append(values, value) ELSE values

Adapter_append_delete(d, key, value, values) ==
    IF value # <<>> THEN Append(values, value) ELSE <<>>

\* append_remove that removes the first value
Adapter_append_remove_first(d, key, value, values) ==
    IF value # <<>> THEN Append(values, value)
    ELSE IF values # <<>> THEN Tail(values)
    ELSE values

Adapter_append_remove(d, key, value, values) ==
    IF value # <<>> THEN Append(values, value)
    ELSE IF values # <<>> THEN SubSeq(values, 1, Len(values) - 1)
    ELSE values

\* listing that keeps the parts as split
Adapter_listing_unstripped(d, key, value, values) ==
    values \o split(value, ",")

Adapter_listing(d, key, value, values) ==
    values \o NonEmptyStripped(split(value, ","))

Adapter_json(d, key, value, values) ==
    IF value # <<>> THEN Append(values, value) ELSE values

\* the names register_adapters finds in class Adapter
AdapterNames ==
    {N_raw, N_overwrite, N_append, N_concat, N_append_default,
     N_append_delete, N_append_remove, N_listing, N_json, N_default, N_dot}

\* get_adapter: the name resolved in the .adapt namespace
get_adapter(d, key) == resolve_name(d, key, ADAPTER_PREFIX, N_default)

\* adapter(key, value, values, self), or values.append(str(value)) when
\* no adapter is registered under the name
apply_adapter(name, d, key, value, values) ==
    CASE name = N_raw -> Adapter_raw(d, key, value, values)
      [] name \in {N_overwrite, N_dot} -> Adapter_overwrite(d, key, value, values)
      [] name \in {N_append, N_default} -> Adapter_append(d, key, value, values)
      [] name = N_concat -> Adapter_concat(d, key, value, values)
      [] name = N_append_default -> Adapter_append_default(d, key, value, values)
      [] name = N_append_delete -> Adapter_append_delete(d, key, value, values)
      [] name = N_append_remove -> Adapter_append_remove(d, key, value, values)
      [] name = N_listing -> Adapter_listing(d, key, value, values)
      [] name = N_json -> Adapter_json(d, key, value, values)
      [] OTHER -> Append(values, value)

(***************************************************************************)
(* The store: self._data is an OrderedDict; data is the mapping and order  *)
(* the sequence of its keys in insertion order.                            *)
(***************************************************************************)
Remove(o, key) == SelectSeq(o, LAMBDA k : k # key)

RemoveKey(d, key) == [k \in DOMAIN d \ {key} |-> d[k]]

PutKey(d, key, values) == [k \in DOMAIN d \cup {key} |-> IF k = key THEN values ELSE d[k]]

\* adapt_key that lets every key pass
adapt_key_any(key) == TRUE

\* LConfig.adapt_key: TRUE when the key passes
adapt_key(key) == Chars(key) \subseteq KEY_CHARS

\* dict.get(key, [])
get_values(d, key) == IF key \in DOMAIN d THEN d[key] ELSE <<>>

\* the tail of __setitem__ without the test for an empty list
store_values_always(d, o, key, values) ==
    [data |-> PutKey(d, key, values),
     order |-> IF key \in DOMAIN d THEN o ELSE Append(o, key)]

\* the tail of __setitem__ that puts the key it stores at the end
store_values_moves_last(d, o, key, values) ==
    IF values # <<>>
    THEN [data |-> PutKey(d, key, values), order |-> Append(Remove(o, key), key)]
    ELSE IF key \in DOMAIN d
    THEN [data |-> RemoveKey(d, key), order |-> Remove(o, key)]
    ELSE [data |-> d, order |-> o]

\* the tail of __setitem__ that deletes, with a key, the keys below it
store_values_drops_below(d, o, key, values) ==
    IF values # <<>>
    THEN [data |-> PutKey(d, key, values),
          order |-> IF key \in DOMAIN d THEN o ELSE Append(o, key)]
    ELSE IF key \in DOMAIN d
    THEN [data |-> [k \in {x \in DOMAIN d : ~startswith(x, key)} |-> d[k]],
          order |-> SelectSeq(o, LAMBDA k : ~startswith(k, key))]
    ELSE [data |-> d, order |-> o]

\* the tail of __setitem__: store a non-empty list, delete on an empty one
store_values(d, o, key, values) ==
    IF values # <<>>
    THEN [data |-> PutKey(d, key, values),
          order |-> IF key \in DOMAIN d THEN o ELSE Append(o, key)]
    ELSE IF key \in DOMAIN d
    THEN [data |-> RemoveKey(d, key), order |-> Remove(o, key)]
    ELSE [data |-> d, order |-> o]

\* LConfig.__setitem__: the new store, the outcome, the adapter name that
\* was resolved and the list the adapter returned
LConfig_setitem(d, o, key, value) ==
    IF ~adapt_key(key)
    THEN [data |-> d, order |-> o, kind |-> "ValueError", name |-> <<>>, adapted |-> <<>>]
    ELSE LET name == get_adapter(d, key)
             values == get_values(d, key)
         IN  IF name = IndexError
             THEN [data |-> d, order |-> o, kind |-> "IndexError",
                   name |-> name, adapted |-> <<>>]
             ELSE LET adapted == apply_adapter(name, d, key, value, values)
                      st == store_values(d, o, key, adapted)
                  IN  IF IndexError \in Chars(adapted)
                      THEN [data |-> d, order |-> o, kind |-> "IndexError",
                            name |-> name, adapted |-> <<>>]
                      ELSE [data |-> st.data, order |-> st.order, kind |-> "ok",
                            name |-> name, adapted |-> adapted]

\* LConfig.__contains__
LConfig_contains(d, key) == key \in DOMAIN d

\* LConfig.__iter__
LConfig_iter(o) == o

\* LConfig.__delitem__
LConfig_delitem(d, o, key) ==
    IF key \in DOMAIN d
    THEN [data |-> RemoveKey(d, key), order |-> Remove(o, key), kind |-> "ok"]
    ELSE [data |-> d, order |-> o, kind |-> "KeyError"]

(***************************************************************************)
(* class Converter.  A result is [kind, val]: kind "str" for a string,     *)
(* "list" for a list of strings, "view" for an LConfigProxy (val is its    *)
(* prefix), or the name of the exception raised.                           *)
(***************************************************************************)
Converter_string(values) ==
    IF values = <<>> THEN [kind |-> "IndexError", val |-> <<>>]
    ELSE [kind |-> "str", val |-> values[Len(values)]]

Converter_raw(values) == [kind |-> "list", val |-> values]

\* stringlist that keeps only the last value
Converter_stringlist_last(values) ==
    [kind |-> "list", val |-> IF values = <<>> THEN <<>> ELSE <<values[Len(values)]>>]

Converter_stringlist(values) ==
    [kind |-> "list", val |-> [i \in 1..Len(values) |-> values[i]]]

Converter_stringjoin(values) == [kind |-> "str", val |-> join(values, <<"\n">>)]

\* get_converter: the name resolved in the .convert namespace
get_converter(d, key) == resolve_name(d, key, CONVERTER_PREFIX, N_default)

\* converter(key, values, self) for the converters that do not read the
\* store, or the raw list when no converter is registered under the name
apply_converter(name, values) ==
    CASE name \in {N_string, N_default, N_dot} -> Converter_string(values)
      [] name = N_raw -> Converter_raw(values)
      [] name = N_stringlist -> Converter_stringlist(values)
      [] name = N_stringjoin -> Converter_stringjoin(values)
      [] OTHER -> [kind |-> "list", val |-> values]

\* str() of an LConfigProxy is object.__repr__, "<lconfig.LConfigProxy object
\* at 0x...>" with an address that differs from run to run: one marker
\* character stands for that text
ProxyRepr == <<"<lconfig.LConfigProxy object>">>

\* str() of what __getitem__ returned; a list prints as ['v', 'w'] (values
\* without quotes, backslashes or control characters)
py_str(r) ==
    CASE r.kind = "str" -> r.val
      [] r.kind = "list" ->
             <<"[">> \o join([i \in 1..Len(r.val) |-> <<"'">> \o r.val[i] \o <<"'">>],
                             <<",", " ">>) \o <<"]">>
      [] OTHER -> ProxyRepr

\* Interpolate.idpattern: the length of the longest run of characters of
\* [._a-z0-9] that s starts with
IdLen(s) ==
    IF s = <<>> \/ s[1] \notin KEY_CHARS THEN 0
    ELSE CHOOSE n \in 1..Len(s) :
             /\ \A i \in 1..n : s[i] \in KEY_CHARS
             /\ (n = Len(s) \/ s[n + 1] \notin KEY_CHARS)

\* string.Template.pattern at a '$' followed by rest: the group that matches,
\* the name it holds and the number of characters the match takes
TemplateMatch(rest) ==
    IF rest # <<>> /\ rest[1] = "$"
    THEN [group |-> "escaped", name |-> <<>>, len |-> 2]
    ELSE IF IdLen(rest) > 0
    THEN [group |-> "named", name |-> SubSeq(rest, 1, IdLen(rest)), len |-> 1 + IdLen(rest)]
    ELSE IF /\ rest # <<>> /\ rest[1] = "{"
            /\ IdLen(Tail(rest)) > 0
            /\ Len(rest) >= IdLen(Tail(rest)) + 2
            /\ rest[IdLen(Tail(rest)) + 2] = "}"
    THEN [group |-> "braced", name |-> SubSeq(rest, 2, IdLen(Tail(rest)) + 1),
          len |-> IdLen(Tail(rest)) + 3]
    ELSE [group |-> "invalid", name |-> <<>>, len |-> 1]

RECURSIVE LConfig_getitem_in(_, _, _)
RECURSIVE substitute(_, _, _)

\* substitute that scans the text it inserted again
RECURSIVE substitute_rescan(_, _, _)
substitute_rescan(d, s, stack) ==
    IF s = <<>> THEN [kind |-> "str", val |-> <<>>]
    ELSE IF s[1] # "$"
    THEN LET r == substitute_rescan(d, Tail(s), stack)
         IN  IF r.kind = "str" THEN [r EXCEPT !.val = <<s[1]>> \o r.val] ELSE r
    ELSE LET m == TemplateMatch(Tail(s))
             rest == DropPrefix(s, m.len)
         IN  IF m.group = "invalid" THEN [kind |-> "ValueError", val |-> <<>>]
             ELSE IF m.group = "escaped"
             THEN LET r == substitute_rescan(d, rest, stack)
                  IN  IF r.kind = "str" THEN [r EXCEPT !.val = <<"$">> \o r.val] ELSE r
             ELSE LET v == LConfig_getitem_in(d, m.name, stack)
                  IN  IF v.kind \notin {"str", "list", "view"} THEN v
                      ELSE substitute_rescan(d, py_str(v) \o rest, stack)

\* Interpolate(value).substitute(config): re.sub over the matches of the
\* pattern from left to right; the first error ends the call.  stack is the
\* set of keys whose interpolation is under way.
substitute(d, s, stack) ==
    IF s = <<>> THEN [kind |-> "str", val |-> <<>>]
    ELSE IF s[1] # "$"
    THEN LET r == substitute(d, Tail(s), stack)
         IN  IF r.kind = "str" THEN [r EXCEPT !.val = <<s[1]>> \o r.val] ELSE r
    ELSE LET m == TemplateMatch(Tail(s))
             rest == DropPrefix(s, m.len)
         IN  IF m.group = "invalid" THEN [kind |-> "ValueError", val |-> <<>>]
             ELSE IF m.group = "escaped"
             THEN LET r == substitute(d, rest, stack)
                  IN  IF r.kind = "str" THEN [r EXCEPT !.val = <<"$">> \o r.val] ELSE r
             ELSE LET v == LConfig_getitem_in(d, m.name, stack)
                  IN  IF v.kind \notin {"str", "list", "view"} THEN v
                      ELSE LET r == substitute(d, rest, stack)
                           IN  IF r.kind = "str"
                               THEN [r EXCEPT !.val = py_str(v) \o r.val]
                               ELSE r

\* Converter.interpolate.  A key whose interpolation is under way is read
\* again only when its own value leads back to it: the calls then nest
\* without end and Python raises RecursionError.
Converter_interpolate(d, key, values, stack) ==
    IF values = <<>> THEN [kind |-> "IndexError", val |-> <<>>]
    ELSE LET value == values[Len(values)]
         IN  IF "$" \notin Chars(value) THEN [kind |-> "str", val |-> value]
             ELSE IF key \in stack THEN [kind |-> "RecursionError", val |-> <<>>]
             ELSE substitute(d, value, stack \cup {key})

\* LConfig.__getitem__ called while the keys of stack are being interpolated
LConfig_getitem_in(d, key, stack) ==
    IF key \notin DOMAIN d
    THEN (IF endswith(key, <<".">>)
          THEN [kind |-> "view", val |-> make_prefix(key, <<>>)]
          ELSE [kind |-> "KeyError", val |-> <<>>])
    ELSE LET name == get_converter(d, key)
         IN  IF name = IndexError THEN [kind |-> "IndexError", val |-> <<>>]
             ELSE IF name = N_interpolate
             THEN Converter_interpolate(d, key, d[key], stack)
             ELSE apply_converter(name, d[key])

\* __getitem__ that raises for every absent key
LConfig_getitem_no_view(d, key) ==
    IF key \notin DOMAIN d
    THEN [kind |-> "KeyError", val |-> <<>>]
    ELSE LET name == get_converter(d, key)
         IN  IF name = IndexError THEN [kind |-> "IndexError", val |-> <<>>]
             ELSE apply_converter(name, d[key])

\* LConfig.__getitem__
LConfig_getitem(d, key) == LConfig_getitem_in(d, key, {})

(***************************************************************************)
(* class LConfigProxy: a view is its normalised prefix p.                  *)
(***************************************************************************)
\* __init__ that keeps the prefix as given
LConfigProxy_init_raw(prefix) == prefix

\* LConfigProxy.__init__: self._prefix
LConfigProxy_init(prefix) == make_prefix(prefix, <<>>)

LConfigProxy_getitem(d, p, key) == LConfig_getitem(d, p \o key)

\* adapt_key fails on the unprefixed key before the store sees the write
LConfigProxy_setitem(d, o, p, key, value) ==
    IF ~adapt_key(key)
    THEN [data |-> d, order |-> o, kind |-> "ValueError", name |-> <<>>, adapted |-> <<>>]
    ELSE LConfig_setitem(d, o, p \o key, value)

LConfigProxy_delitem(d, o, p, key) == LConfig_delitem(d, o, p \o key)

LConfigProxy_contains(d, p, key) == LConfig_contains(d, p \o key)

RECURSIVE LConfigProxy_iter(_, _)
LConfigProxy_iter(o, p) ==
    IF o = <<>> THEN <<>>
    ELSE (IF startswith(o[1], p) THEN <<DropPrefix(o[1], Len(p))>> ELSE <<>>)
         \o LConfigProxy_iter(Tail(o), p)

(***************************************************************************)
(* Attribute access: __getattr__ is what Python calls for a name that is   *)
(* no attribute of the object or its class.                                *)
(***************************************************************************)
\* LConfig.__getattr__: every KeyError that self[name] raises is caught
LConfig_getattr(d, o, name) ==
    LET r == LConfig_getitem(d, name)
        dotname == name \o <<".">>
    IN  IF r.kind # "KeyError" THEN r
        ELSE IF \E i \in 1..Len(LConfig_iter(o)) : startswith(LConfig_iter(o)[i], dotname)
        THEN [kind |-> "view", val |-> LConfigProxy_init(dotname)]
        ELSE [kind |-> "AttributeError", val |-> <<>>]

\* LConfigProxy.__getattr__
LConfigProxy_getattr(d, o, p, name) == LConfig_getattr(d, o, p \o name)

(***************************************************************************)
(* LConfig.read_dict.  A mapping is a sequence of <<key, node>> pairs in   *)
(* the order the mapping iterates; a node is a string leaf, a sequence     *)
(* leaf or a nested mapping.  An exception ends the call and keeps what    *)
(* the earlier entries wrote.                                              *)
(***************************************************************************)
StrLeaf(v) == [t |-> "str", v |-> v]
SeqLeaf(v) == [t |-> "seq", v |-> v]
MapNode(v) == [t |-> "map", v |-> v]

RECURSIVE read_dict(_, _, _, _)
read_dict(d, o, m, prefix) ==
    IF m = <<>> THEN [data |-> d, order |-> o, kind |-> "ok"]
    ELSE LET key == m[1][1]
             node == m[1][2]
             prefix_key == make_prefix(prefix, key)
             r == CASE node.t = "str" ->
                           LET w == LConfig_setitem(d, o, prefix_key, node.v)
                           IN  [data |-> w.data, order |-> w.order, kind |-> w.kind]
                    [] node.t = "map" -> read_dict(d, o, node.v, prefix_key)
                    [] OTHER ->
                           [data |-> PutKey(d, prefix_key, node.v),
                            order |-> IF prefix_key \in DOMAIN d THEN o
                                      ELSE Append(o, prefix_key),
                            kind |-> "ok"]
         IN  IF r.kind # "ok" THEN r
             ELSE read_dict(r.data, r.order, Tail(m), prefix)

(***************************************************************************)
(* LConfig.write_data.  A key filter is None ("none") or a callable; the   *)
(* callables of the model accept every key ("all"), no key ("reject") or   *)
(* the keys that are not meta keys ("user").                               *)
(***************************************************************************)
\* what the callable the caller supplied returns for a key
call_filter(filter, key) ==
    CASE filter = "all" -> TRUE
      [] filter = "reject" -> FALSE
      [] OTHER -> ~startswith(key, <<".">>)

\* key_filter = lambda key: True if key_filter is None else key_filter
\* The name key_filter in the body of the lambda is the local variable, which
\* the assignment has bound to the lambda itself: it is never None, the call
\* returns the lambda, and a function object is true.
rebound_key_filter(filter, key) == TRUE

\* "{key} = {value}\n" for every raw value of a key
RECURSIVE format_values(_, _)
format_values(key, values) ==
    IF values = <<>> THEN <<>>
    ELSE key \o <<" ", "=", " ">> \o values[1] \o <<"\n">>
         \o format_values(key, Tail(values))

\* LConfig.write_data: the text written to the sink
RECURSIVE write_data(_, _, _)
write_data(d, o, filter) ==
    IF o = <<>> THEN <<>>
    ELSE (IF rebound_key_filter(filter, o[1]) THEN format_values(o[1], d[o[1]]) ELSE <<>>)
         \o write_data(d, Tail(o), filter)

\* str.splitlines() of a text whose only line boundary is "\n"
RECURSIVE splitlines(_)
splitlines(text) ==
    IF text = <<>> THEN <<>>
    ELSE IF \A i \in 1..Len(text) : text[i] # "\n" THEN <<text>>
    ELSE LET i == CHOOSE j \in 1..Len(text) :
                      text[j] = "\n" /\ \A m \in 1..(j - 1) : text[m] # "\n"
         IN  <<SubSeq(text, 1, i - 1)>> \o splitlines(SubSeq(text, i + 1, Len(text)))

(***************************************************************************)
(* The line parsers.  data is the sequence of lines.                       *)
(***************************************************************************)
\* StrictParser.read_data
RECURSIVE StrictParser_read_data(_, _, _, _)
StrictParser_read_data(d, o, lines, prefix) ==
    IF lines = <<>> THEN [data |-> d, order |-> o, kind |-> "ok"]
    ELSE LET line == strip(lines[1])
             parts == partition(line, "=")
             key == strip(parts[1])
             value == strip(parts[3])
         IN  IF startswith(line, <<"#">>) \/ line = <<>>
             THEN StrictParser_read_data(d, o, Tail(lines), prefix)
             ELSE IF parts[2] # <<"=">>
             THEN [data |-> d, order |-> o, kind |-> "ValueError"]
             ELSE IF key = <<>>
             THEN [data |-> d, order |-> o, kind |-> "KeyError"]
             ELSE LET w == LConfig_setitem(d, o, make_prefix(prefix, key), value)
                  IN  IF w.kind # "ok"
                      THEN [data |-> w.data, order |-> w.order, kind |-> w.kind]
                      ELSE StrictParser_read_data(w.data, w.order, Tail(lines), prefix)

\* TolerantParser.read_data; last_key is the key of the last line that had one
RECURSIVE TolerantParser_read_data(_, _, _, _, _)
TolerantParser_read_data(d, o, lines, prefix, last_key) ==
    IF lines = <<>> THEN [data |-> d, order |-> o, kind |-> "ok"]
    ELSE LET line == strip(lines[1])
             parts == partition(line, "=")
             stripped == lower(strip(parts[1]))
             value == strip(parts[3])
             key == IF stripped # <<>> THEN make_prefix(prefix, stripped) ELSE last_key
         IN  IF startswith(line, <<"#">>) \/ line = <<>>
             THEN TolerantParser_read_data(d, o, Tail(lines), prefix, last_key)
             ELSE IF parts[2] # <<"=">>
             THEN [data |-> d, order |-> o, kind |-> "ValueError"]
             ELSE LET w == LConfig_setitem(d, o, key, value)
                  IN  IF w.kind # "ok"
                      THEN [data |-> w.data, order |-> w.order, kind |-> w.kind]
                      ELSE TolerantParser_read_data(w.data, w.order, Tail(lines),
                                                    prefix, key)

(***************************************************************************)
(* The state machine.  last records the operation that was just run: its   *)
(* name and arguments, for a view the prefix the view was built with, the  *)
(* adapter or converter name that was resolved, the raw list of the key    *)
(* before the operation, the list the adapter returned and the outcome.    *)
(***************************************************************************)
NoOp == [op |-> "init", key |-> <<>>, value |-> <<>>, prefix |-> <<>>,
         name |-> <<>>, before |-> <<>>, adapted |-> <<>>,
         kind |-> "none", val |-> <<>>]

Init ==
    /\ data = <<>>
    /\ order = <<>>
    /\ last = NoOp

\* the number of raw values held under the keys of S
RECURSIVE CountValues(_, _)
CountValues(d, S) ==
    IF S = {} THEN 0
    ELSE LET k == CHOOSE x \in S : TRUE
         IN  Len(d[k]) + CountValues(d, S \ {k})

\* the keys that are not meta keys hold at most MaxValues raw values
\* together, each of at most MaxStr characters (a meta key holds the one
\* name last written to it)
WithinBounds(d) ==
    LET user == {k \in DOMAIN d : ~startswith(k, <<".">>)}
    IN  /\ CountValues(d, user) <= MaxValues
        /\ \A k \in user : \A i \in 1..Len(d[k]) : Len(d[k][i]) <= MaxStr

\* store[key] = value
Write(key, value) ==
    LET r == LConfig_setitem(data, order, key, value)
    IN  /\ WithinBounds(r.data)
        /\ data' = r.data
        /\ order' = r.order
        /\ last' = [NoOp EXCEPT !.op = "write", !.key = key, !.value = value,
                                !.name = r.name, !.before = get_values(data, key),
                                !.adapted = r.adapted, !.kind = r.kind]

\* store[key] = value, for a store whose keys that are not meta keys hold
\* at most n raw values together
WriteWithin(n, key, value) ==
    LET r == LConfig_setitem(data, order, key, value)
    IN  /\ CountValues(r.data, {k \in DOMAIN r.data : ~startswith(k, <<".">>)}) <= n
        /\ data' = r.data
        /\ order' = r.order
        /\ last' = [NoOp EXCEPT !.op = "write", !.key = key, !.value = value,
                                !.name = r.name, !.before = get_values(data, key),
                                !.adapted = r.adapted, !.kind = r.kind]

\* store.write_data(sink, key_filter): val is the text the sink received
WriteText(filter) ==
    /\ UNCHANGED <<data, order>>
    /\ last' = [NoOp EXCEPT !.op = "write_data", !.name = filter, !.kind = "ok",
                            !.val = write_data(data, order, filter)]

\* getattr(store, name)
GetAttr(name) ==
    LET r == LConfig_getattr(data, order, name)
    IN  /\ UNCHANGED <<data, order>>
        /\ last' = [NoOp EXCEPT !.op = "getattr", !.key = name,
                                !.kind = r.kind, !.val = r.val]

\* getattr(LConfigProxy(config, prefix), name)
ViewGetAttr(prefix, name) ==
    LET r == LConfigProxy_getattr(data, order, LConfigProxy_init(prefix), name)
    IN  /\ UNCHANGED <<data, order>>
        /\ last' = [NoOp EXCEPT !.op = "vgetattr", !.prefix = prefix, !.key = name,
                                !.kind = r.kind, !.val = r.val]

\* del store[key]
Delete(key) ==
    LET r == LConfig_delitem(data, order, key)
    IN  /\ data' = r.data
        /\ order' = r.order
        /\ last' = [NoOp EXCEPT !.op = "delete", !.key = key, !.kind = r.kind]

\* store[key]
Read(key) ==
    LET r == LConfig_getitem(data, key)
    IN  /\ UNCHANGED <<data, order>>
        /\ last' = [NoOp EXCEPT !.op = "read", !.key = key,
                                !.name = get_converter(data, key),
                                !.kind = r.kind, !.val = r.val]

(***************************************************************************)
(* Spec: writes, deletes and reads under every built-in adapter.  The keys *)
(* a.b and a. are both governed by the root declaration .adapt. (the last  *)
(* candidate of the resolve_name walk of every key).                       *)
(***************************************************************************)
K_a_dot == <<"a", ".">>
K_a_b == <<"a", ".", "b">>
K_adapt_root == ADAPTER_PREFIX \o <<".">>

DataKeys == {K_a_b, K_a_dot}
DataValues == {<<>>, <<"x">>, <<",">>}
NamespaceValues == {<<>>, <<"x">>}
AdapterValues == AdapterNames \cup {<<"x">>, <<>>}
AllKeys == DataKeys \cup {K_adapt_root}

ValuesOf(key) == IF key = K_a_dot THEN NamespaceValues ELSE DataValues

WriteData == \E key \in DataKeys : \E value \in ValuesOf(key) : Write(key, value)

WriteAdapter == \E value \in AdapterValues : Write(K_adapt_root, value)

DeleteKey == \E key \in AllKeys : Delete(key)

ReadKey == \E key \in AllKeys : Read(key)

Next == WriteData \/ WriteAdapter \/ DeleteKey \/ ReadKey

Spec == Init /\ [][Next]_vars

(***************************************************************************)
(* SpecResolve: declarations at four depths of the .adapt namespace are    *)
(* written, overwritten and deleted, and resolve_name is called for keys   *)
(* at, above, below and beside them, under several prefixes.               *)
(***************************************************************************)
\* config.resolve_name(key, prefix, default)
Resolve(key, prefix, default) ==
    /\ UNCHANGED <<data, order>>
    /\ last' = [NoOp EXCEPT !.op = "resolve", !.key = key, !.prefix = prefix,
                            !.value = default,
                            !.val = resolve_name(data, key, prefix, default)]

R_root == ADAPTER_PREFIX \o <<".">>
R_a_dot == ADAPTER_PREFIX \o <<".", "a", ".">>
R_a_b_dot == ADAPTER_PREFIX \o <<".", "a", ".", "b", ".">>
R_a_b == ADAPTER_PREFIX \o <<".", "a", ".", "b">>

DeclKeys == {R_root, R_a_dot, R_a_b_dot, R_a_b}
DeclValues == {N_overwrite, N_listing}

P_a_b_c == <<"a", ".", "b", ".", "c">>
P_a_c == <<"a", ".", "c">>
P_z == <<"z">>

ProbeKeys ==
    {P_a_b_c, K_a_b, P_a_c, <<"a">>, P_z, K_a_dot, <<"b">>, <<"b", ".", "c">>,
     <<"a", ".", ".", "b">>, <<>>, <<".", "a">>}
ProbePrefixes == {ADAPTER_PREFIX, ADAPTER_PREFIX \o <<".", "a">>, CONVERTER_PREFIX}

Declare == \E key \in DeclKeys, value \in DeclValues : Write(key, value)

Undeclare == \E key \in DeclKeys : Delete(key)

ResolveName ==
    \E key \in ProbeKeys, prefix \in ProbePrefixes : Resolve(key, prefix, N_default)

NextResolve == Declare \/ Undeclare \/ ResolveName

SpecResolve == Init /\ [][NextResolve]_vars

(***************************************************************************)
(* SpecView: the store under the default adapter, written and read         *)
(* directly, through views, through read_dict and through the strict and   *)
(* the tolerant line parser; .convert.a. selects the converter of the keys *)
(* below a.                                                                *)
(***************************************************************************)
\* LConfigProxy(config, prefix)[key] = value
ViewWrite(prefix, key, value) ==
    LET p == LConfigProxy_init(prefix)
        r == LConfigProxy_setitem(data, order, p, key, value)
    IN  /\ WithinBounds(r.data)
        /\ data' = r.data
        /\ order' = r.order
        /\ last' = [NoOp EXCEPT !.op = "vwrite", !.prefix = prefix, !.key = key,
                                !.value = value, !.name = r.name,
                                !.before = get_values(data, p \o key),
                                !.adapted = r.adapted, !.kind = r.kind]

\* del LConfigProxy(config, prefix)[key]
ViewDelete(prefix, key) ==
    LET r == LConfigProxy_delitem(data, order, LConfigProxy_init(prefix), key)
    IN  /\ data' = r.data
        /\ order' = r.order
        /\ last' = [NoOp EXCEPT !.op = "vdelete", !.prefix = prefix, !.key = key,
                                !.kind = r.kind]

\* LConfigProxy(config, prefix)[key]
ViewRead(prefix, key) ==
    LET r == LConfigProxy_getitem(data, LConfigProxy_init(prefix), key)
    IN  /\ UNCHANGED <<data, order>>
        /\ last' = [NoOp EXCEPT !.op = "vread", !.prefix = prefix, !.key = key,
                                !.kind = r.kind, !.val = r.val]

\* config.read_dict(mapping, prefix)
ReadDict(m, prefix) ==
    LET r == read_dict(data, order, m, prefix)
    IN  /\ WithinBounds(r.data)
        /\ data' = r.data
        /\ order' = r.order
        /\ last' = [NoOp EXCEPT !.op = "read_dict", !.prefix = prefix, !.kind = r.kind]

\* StrictParser().read_data(config, lines, prefix)
ParseStrict(lines, prefix) ==
    LET r == StrictParser_read_data(data, order, lines, prefix)
    IN  /\ WithinBounds(r.data)
        /\ data' = r.data
        /\ order' = r.order
        /\ last' = [NoOp EXCEPT !.op = "strict", !.prefix = prefix, !.kind = r.kind]

\* TolerantParser().read_data(config, lines, prefix)
ParseTolerant(lines, prefix) ==
    LET r == TolerantParser_read_data(data, order, lines, prefix, <<>>)
    IN  /\ WithinBounds(r.data)
        /\ data' = r.data
        /\ order' = r.order
        /\ last' = [NoOp EXCEPT !.op = "tolerant", !.prefix = prefix, !.kind = r.kind]

K_convert_a_dot == CONVERTER_PREFIX \o <<".", "a", ".">>
K_bad == <<"a", ".", "A">>

StoreKeys == {K_a_b, K_bad}
StoreValues == {<<>>, <<"x">>, <<"y">>}
ConverterValues == {N_stringlist, N_stringjoin, N_raw, <<"x">>}
ViewPrefixes == {<<>>, <<"a">>, K_a_dot, <<"A">>}
ViewKeys == {<<"b">>, <<"A">>}
ViewReadKeys == {<<"b">>, <<"b", ".">>, K_a_dot}
ReadKeys == {K_a_b, K_a_dot, <<"b">>, K_convert_a_dot}

VStoreWrite == \E key \in StoreKeys, value \in StoreValues : Write(key, value)

VDeclare == \E value \in ConverterValues : Write(K_convert_a_dot, value)

VStoreDelete == \E key \in {K_a_b, K_convert_a_dot} : Delete(key)

VStoreRead == \E key \in ReadKeys : Read(key)

VViewWrite ==
    \E prefix \in ViewPrefixes, key \in ViewKeys, value \in StoreValues :
        ViewWrite(prefix, key, value)

VViewDelete == \E prefix \in ViewPrefixes, key \in ViewKeys : ViewDelete(prefix, key)

VViewRead == \E prefix \in ViewPrefixes, key \in ViewReadKeys : ViewRead(prefix, key)

NextView ==
    \/ VStoreWrite \/ VDeclare \/ VStoreDelete \/ VStoreRead
    \/ VViewWrite \/ VViewDelete \/ VViewRead

SpecView == Init /\ [][NextView]_vars

(***************************************************************************)
(* SpecLoad: the store filled by direct writes, through a view, by         *)
(* read_dict and by the strict and the tolerant line parser.               *)
(***************************************************************************)
LoadKeys == {K_a_b, <<>>, K_bad}
LoadValues == {<<>>, <<"x">>}

DictInputs ==
    {<<<<<<"b">>, StrLeaf(<<"x">>)>>>>,
     <<<<<<"A">>, SeqLeaf(<<<<"x">>>>)>>>>,
     <<<<<<"a">>, MapNode(<<<<<<"b">>, SeqLeaf(<<<<"x">>, <<"y">>>>)>>>>)>>>>,
     <<<<<<"a">>, MapNode(<<<<<<"b">>, SeqLeaf(<<>>)>>>>)>>>>,
     <<<<<<"b">>, StrLeaf(<<"y">>)>>, <<<<"A">>, StrLeaf(<<"x">>)>>>>}
DictPrefixes == {<<>>, <<"a">>}

TextInputs ==
    {<<<<"#", " ", "c">>, <<>>, <<"=", "y">>>>,
     <<<<"A", "=", "x">>>>,
     <<<<" ", "a", ".", "b", " ", "=", " ", "x", " ">>, <<"=", "y">>>>,
     <<<<"a", "b">>>>}

LStoreWrite == \E key \in LoadKeys, value \in LoadValues : Write(key, value)

LViewWrite == \E key \in ViewKeys, value \in LoadValues : ViewWrite(<<"a">>, key, value)

LDelete == \E key \in {K_a_b, <<>>, <<"A">>} : Delete(key)

LReadDict == \E m \in DictInputs, prefix \in DictPrefixes : ReadDict(m, prefix)

LParseStrict == \E lines \in TextInputs : ParseStrict(lines, <<>>)

LParseTolerant == \E lines \in TextInputs : ParseTolerant(lines, <<>>)

NextLoad ==
    \/ LStoreWrite \/ LViewWrite \/ LDelete
    \/ LReadDict \/ LParseStrict \/ LParseTolerant

SpecLoad == Init /\ [][NextLoad]_vars

(***************************************************************************)
(* SpecDefault: the key a.b under .adapt.a. = append_default, while        *)
(* defaults are declared, redeclared and deleted at .default.a. and at the *)
(* root .default.                                                          *)
(***************************************************************************)
K_adapt_a_dot == ADAPTER_PREFIX \o <<".", "a", ".">>
K_default_root == DEFAULT_PREFIX \o <<".">>
K_default_a_dot == DEFAULT_PREFIX \o <<".", "a", ".">>
K_default_a_b == DEFAULT_PREFIX \o <<".", "a", ".", "b">>

DefaultKeys == {K_default_root, K_default_a_dot, K_default_a_b}
DefaultAdapters == {N_append_default, N_append}

\* the defaults declared at each depth; the one for a.b may be the empty string
DefaultsOf(key) ==
    IF key = K_default_root THEN {<<"x">>}
    ELSE IF key = K_default_a_dot THEN {<<"y">>}
    ELSE {<<>>, <<"y">>}

DWriteData == \E value \in {<<>>, <<"x">>} : Write(K_a_b, value)

DWriteAdapter == \E value \in DefaultAdapters : Write(K_adapt_a_dot, value)

DWriteDefault == \E key \in DefaultKeys : \E value \in DefaultsOf(key) : Write(key, value)

DDelete == \E key \in DefaultKeys \cup {K_adapt_a_dot, K_a_b} : Delete(key)

DRead == Read(K_a_b)

NextDefault == DWriteData \/ DWriteAdapter \/ DWriteDefault \/ DDelete \/ DRead

SpecDefault == Init /\ [][NextDefault]_vars

(***************************************************************************)
(* SpecListing: the key a.b written with texts that hold commas and        *)
(* whitespace, while the root declaration .adapt. is listing or absent.    *)
(* The store holds at most MaxParts raw values.                            *)
(***************************************************************************)
T_1_2_3 == <<"1", ",", "2", ",", " ", "3">>

ListingValues == {T_1_2_3, <<" ", ",", " ", ",">>, <<>>, <<" ", "x", " ", "y", " ">>}

GWriteData == \E value \in ListingValues : WriteWithin(MaxParts, K_a_b, value)

GWriteAdapter == Write(K_adapt_root, N_listing)

GDelete == \E key \in {K_a_b, K_adapt_root} : Delete(key)

GRead == Read(K_a_b)

NextListing == GWriteData \/ GWriteAdapter \/ GDelete \/ GRead

SpecListing == Init /\ [][NextListing]_vars

(***************************************************************************)
(* SpecInterp: the key g holds templates and is read through interpolate   *)
(* when .convert.g says so; the templates name the key k, the absent key   *)
(* x and the absent namespace k.; k may itself be read through interpolate *)
(* or raw and may name g.                                                  *)
(***************************************************************************)
K_g == <<"g">>
K_k == <<"k">>
K_convert_g == CONVERTER_PREFIX \o <<".", "g">>
K_convert_k == CONVERTER_PREFIX \o <<".", "k">>

T_named == <<"$", "k">>
T_mixed == <<"a", "$", "{", "k", "}", " ", "$", "$", "k">>
T_namespace == <<"$", "k", ".">>
T_braced_dot == <<"$", "{", "k", "}", ".">>
T_lone == <<"$", " ">>
T_unknown == <<"$", "{", "x", "}">>
T_known_unknown == <<"$", "k", "$", "x">>
T_cycle == <<"$", "g">>

TemplateValues ==
    {T_named, T_mixed, T_namespace, T_braced_dot, T_lone, T_unknown,
     T_known_unknown, <<"x">>}
RefValues == {<<"v">>, <<"$", "$">>, T_cycle}

IWriteTemplate == \E value \in TemplateValues : WriteWithin(MaxValues, K_g, value)

IWriteRef == \E value \in RefValues : WriteWithin(MaxValues, K_k, value)

IDeclare ==
    \/ Write(K_convert_g, N_interpolate)
    \/ \E value \in {N_interpolate, N_raw} : Write(K_convert_k, value)

IDelete == \E key \in {K_g, K_k, K_convert_g, K_convert_k} : Delete(key)

IRead == \E key \in {K_g, K_k} : Read(key)

NextInterp == IWriteTemplate \/ IWriteRef \/ IDeclare \/ IDelete \/ IRead

SpecInterp == Init /\ [][NextInterp]_vars

(***************************************************************************)
(* SpecText: the keys k and a.b written under the default adapter or under *)
(* the adapter .adapt.k names, and the store written out as text with and  *)
(* without a key filter.                                                   *)
(***************************************************************************)
K_adapt_k == ADAPTER_PREFIX \o <<".", "k">>

TextKeys == {K_k, K_a_b}
TextValues == {<<>>, <<"v">>, <<" ", "v">>}
TextAdapters == {N_raw, N_overwrite}
Filters == {"none", "all", "reject", "user"}

TWrite == \E key \in TextKeys, value \in TextValues : Write(key, value)

TDeclare == \E name \in TextAdapters : Write(K_adapt_k, name)

TDelete == \E key \in TextKeys \cup {K_adapt_k} : Delete(key)

TWriteData == \E filter \in Filters : WriteText(filter)

NextText == TWrite \/ TDeclare \/ TDelete \/ TWriteData

SpecText == Init /\ [][NextText]_vars

(***************************************************************************)
(* SpecAttr: attribute access on the store and on the view g while the     *)
(* keys g, g.h and g.h.i come and go; g and g.h are read through           *)
(* interpolate when .convert.g says so, and their values may name the      *)
(* absent key x.                                                           *)
(***************************************************************************)
K_g_h == <<"g", ".", "h">>
K_g_h_i == <<"g", ".", "h", ".", "i">>

AttrKeys == {K_g, K_g_h, K_g_h_i}
AttrValues == {<<"v">>, T_unknown}
AttrNames == {K_g, K_g_h, <<"x">>}
AttrViewNames == {<<"h">>, <<"x">>}

AWrite == \E key \in AttrKeys, value \in AttrValues : WriteWithin(MaxValues, key, value)

ADeclare == \E key \in {K_convert_g, K_convert_g \o <<".">>} : Write(key, N_interpolate)

ADelete == \E key \in AttrKeys \cup {K_convert_g, K_convert_g \o <<".">>} : Delete(key)

AGetAttr == \E name \in AttrNames : GetAttr(name)

AViewGetAttr == \E name \in AttrViewNames : ViewGetAttr(K_g, name)

NextAttr == AWrite \/ ADeclare \/ ADelete \/ AGetAttr \/ AViewGetAttr

SpecAttr == Init /\ [][NextAttr]_vars

(***************************************************************************)
(* Properties of Spec.                                                     *)
(***************************************************************************)
IsMeta(key) == startswith(key, <<".">>)

AppendNames == {N_default, N_append}

\* C1: after any sequence of writes and deletes every key present in the
\* store maps to a list with at least one element, and a write whose
\* adapter returned the empty list leaves the key absent.
C1_PresentKeysNonEmpty ==
    /\ \A k \in DOMAIN data : Len(data[k]) >= 1
    /\ (last.op = "write" /\ last.kind = "ok" /\ last.adapted = <<>>)
           => last.key \notin DOMAIN data

\* a write to a present key whose adapter returned the empty list
C1_Witness ==
    /\ last.op = "write" /\ last.kind = "ok"
    /\ last.adapted = <<>> /\ last.before # <<>>
    /\ last.key \notin DOMAIN data
    /\ DOMAIN data # {}

\* C8: under the default (append) adapter an empty value changes nothing,
\* and two non-empty values written to an absent key give the list of the
\* two in the order written.
C8_EmptyAppendIsNoOp ==
    [][/\ (/\ last'.op = "write" /\ last'.kind = "ok"
           /\ last'.name \in AppendNames /\ last'.value = <<>>)
              => (data' = data /\ order' = order)
       /\ (/\ last.op = "write" /\ last.kind = "ok" /\ last.name \in AppendNames
           /\ last.before = <<>> /\ last.value # <<>>
           /\ last'.op = "write" /\ last'.kind = "ok" /\ last'.name \in AppendNames
           /\ last'.key = last.key /\ last'.value # <<>>)
              => (/\ last.key \in DOMAIN data'
                  /\ data'[last.key] = <<last.value, last'.value>>)]_vars

\* an empty value written under the default adapter to a key that holds two values
C8_Witness ==
    /\ last.op = "write" /\ last.kind = "ok"
    /\ last.name \in AppendNames /\ last.value = <<>>
    /\ Len(last.before) = 2 /\ last.before[1] # last.before[2]
    /\ last.key \in DOMAIN data /\ data[last.key] = last.before

\* C9: a key that starts with '.' resolves to the adapter and the converter
\* named dot whatever the store holds, and after a write governed by dot or
\* overwrite the raw list is exactly the written value, also an empty one.
C9_MetaKeysOverwrite ==
    /\ \A k \in AllKeys :
           IsMeta(k) => /\ get_adapter(data, k) = N_dot
                        /\ get_converter(data, k) = N_dot
    /\ (last.op \in {"write", "read"} /\ IsMeta(last.key)) => last.name = N_dot
    /\ (last.op = "write" /\ last.kind = "ok" /\ last.name \in {N_dot, N_overwrite})
           => (last.key \in DOMAIN data /\ data[last.key] = <<last.value>>)
    /\ (last.op = "read" /\ IsMeta(last.key) /\ last.key \in DOMAIN data)
           => (last.kind = "str" /\ last.val = data[last.key][1])

\* the root declaration .adapt. = append_remove is rewritten with another name
C9_Witness ==
    /\ last.op = "write" /\ last.kind = "ok"
    /\ last.key = K_adapt_root
    /\ last.before = <<N_append_remove>> /\ last.value = N_listing
    /\ data[last.key] = <<last.value>>

\* what a write under append_delete to a present key leaves behind; a read
\* of the removed key raises KeyError unless the key ends in '.'
AppendDeleteWrite ==
    /\ last.op = "write" /\ last.kind = "ok"
    /\ last.name = N_append_delete /\ last.before # <<>>

\* C10 (as amended): an empty value written under append_delete to a present
\* key removes the key: contains is false, the key is not iterated, and a
\* read raises KeyError, or returns a view when the key ends in '.'; a
\* non-empty value is appended.
C10_AppendDeleteRemoves ==
    AppendDeleteWrite =>
        IF last.value = <<>>
        THEN /\ ~LConfig_contains(data, last.key)
             /\ \A i \in 1..Len(LConfig_iter(order)) : LConfig_iter(order)[i] # last.key
             /\ LConfig_getitem(data, last.key).kind =
                    (IF endswith(last.key, <<".">>) THEN "view" ELSE "KeyError")
        ELSE /\ LConfig_contains(data, last.key)
             /\ data[last.key] = Append(last.before, last.value)

\* C10 (as stated): the read of the removed key always raises KeyError
C10_Original ==
    (AppendDeleteWrite /\ last.value = <<>>) =>
        /\ ~LConfig_contains(data, last.key)
        /\ \A i \in 1..Len(LConfig_iter(order)) : LConfig_iter(order)[i] # last.key
        /\ LConfig_getitem(data, last.key).kind = "KeyError"

\* an empty value removed a key that held two values
C10_Witness ==
    /\ AppendDeleteWrite /\ last.value = <<>>
    /\ Len(last.before) = 2
    /\ last.key = K_a_b

\* a write that the adapter registered as raw governed
RawWrite(l) == l.op = "write" /\ l.kind = "ok" /\ l.name = N_raw

\* C18 (as amended): under the adapter raw every value, the empty one too,
\* is appended to the raw list, so an empty value written to an absent key
\* leaves the key present with the list [''].
C18_RawAppendsEveryValue ==
    [][RawWrite(last') =>
          /\ last'.key \in DOMAIN data'
          /\ data'[last'.key] = Append(get_values(data, last'.key), last'.value)]_vars

\* C18 (as stated): under raw an empty value changes nothing
C18_Original ==
    [][(RawWrite(last') /\ last'.value = <<>>)
           => (data' = data /\ order' = order)]_vars

\* an empty value was written under raw to the absent key a.b
C18_Witness ==
    /\ RawWrite(last) /\ last.key = K_a_b
    /\ last.value = <<>> /\ last.before = <<>>
    /\ K_a_b \in DOMAIN data /\ data[K_a_b] = <<<<>>>>

\* a write that append_remove governed
AppendRemoveWrite(l) == l.op = "write" /\ l.kind = "ok" /\ l.name = N_append_remove

\* C20: under append_remove an empty value removes the last element of the
\* raw list and keeps the others in order, removes the key when the list
\* held one element and changes nothing, without an error, when the key is
\* absent; a non-empty value is appended.  An empty write after a
\* non-empty one restores the list that was there before the two.
C20_AppendRemovePopsLast ==
    [][/\ AppendRemoveWrite(last') =>
              LET k == last'.key
                  before == get_values(data, k)
              IN  IF last'.value # <<>>
                  THEN k \in DOMAIN data' /\ data'[k] = Append(before, last'.value)
                  ELSE /\ Len(before) = 0 => (data' = data /\ order' = order)
                       /\ Len(before) = 1 => k \notin DOMAIN data'
                       /\ Len(before) >= 2 =>
                              /\ k \in DOMAIN data'
                              /\ Len(data'[k]) = Len(before) - 1
                              /\ \A i \in 1..(Len(before) - 1) : data'[k][i] = before[i]
       /\ (/\ AppendRemoveWrite(last) /\ last.value # <<>>
           /\ AppendRemoveWrite(last') /\ last'.value = <<>> /\ last'.key = last.key)
              => get_values(data', last.key) = last.before]_vars

\* an empty value removed the second of two different values of a.b
C20_Witness ==
    /\ AppendRemoveWrite(last) /\ last.key = K_a_b /\ last.value = <<>>
    /\ Len(last.before) = 2 /\ last.before[1] # last.before[2]
    /\ data[K_a_b] = <<last.before[1]>>

(***************************************************************************)
(* Properties of SpecResolve.                                              *)
(***************************************************************************)
\* the i-th candidate of the walk for a key with segments segs: all the
\* segments for i = Len(segs), else the first i segments and a trailing dot
Candidate(prefix, segs, i) ==
    IF i = Len(segs) THEN prefix \o <<".">> \o join(segs, <<".">>)
    ELSE IF i = 0 THEN prefix \o <<".">>
    ELSE prefix \o <<".">> \o join(SubSeq(segs, 1, i), <<".">>) \o <<".">>

\* the last raw value of the most specific candidate in the store
FirstCandidate(d, key, prefix, default) ==
    LET segs == split(key, ".")
        hits == {i \in 0..Len(segs) : Candidate(prefix, segs, i) \in DOMAIN d}
    IN  IF hits = {} THEN default
        ELSE LET i == CHOOSE j \in hits : \A m \in hits : m <= j
                 values == d[Candidate(prefix, segs, i)]
             IN  values[Len(values)]

\* the store without the declarations that have no trailing dot, except the
\* one for exactly this key
WithoutOtherExact(d, key, prefix) ==
    LET keep == {k \in DOMAIN d :
                     endswith(k, <<".">>) \/ k = prefix \o <<".">> \o key}
    IN  [k \in keep |-> d[k]]

\* C3: for a key that is neither empty nor a meta key, resolve_name returns
\* the last raw value of the first candidate present among prefix.s1...sn,
\* prefix.s1...s(n-1)., ..., prefix.s1., prefix. and the default when none
\* is; a deeper declaration overrides a shallower one, and a declaration
\* without a trailing dot never applies to another key.
C3_ResolveMostSpecific ==
    /\ (last.op = "resolve" /\ last.key # <<>> /\ ~IsMeta(last.key)) =>
           /\ last.val = FirstCandidate(data, last.key, last.prefix, last.value)
           /\ last.val = resolve_name(WithoutOtherExact(data, last.key, last.prefix),
                                      last.key, last.prefix, last.value)
    /\ (last.op = "resolve" /\ last.prefix = ADAPTER_PREFIX) =>
           /\ (last.key = P_a_b_c /\ R_a_b_dot \in DOMAIN data)
                  => last.val = data[R_a_b_dot][1]
           /\ (last.key = P_a_c /\ R_a_dot \in DOMAIN data)
                  => last.val = data[R_a_dot][1]
           /\ (last.key = P_z /\ R_root \notin DOMAIN data)
                  => last.val = last.value

\* a.b.c is resolved while .adapt.a.b. and .adapt.a. hold different names
\* and .adapt.a.b and .adapt. are declared as well
C3_Witness ==
    /\ last.op = "resolve" /\ last.key = P_a_b_c /\ last.prefix = ADAPTER_PREFIX
    /\ DeclKeys \subseteq DOMAIN data
    /\ data[R_a_b_dot] = <<N_listing>>
    /\ data[R_a_dot] = <<N_overwrite>>
    /\ data[R_a_b] = <<N_overwrite>>
    /\ last.val = N_listing

(***************************************************************************)
(* Properties of SpecView.                                                 *)
(***************************************************************************)
\* two results are the same outcome
SameResult(r1, r2) == r1.kind = r2.kind /\ r1.val = r2.val

\* a view prefix ends in '.' unless it is empty
Normalized(prefix) ==
    IF prefix = <<>> \/ prefix[Len(prefix)] = "." THEN prefix
    ELSE Append(prefix, ".")

\* the store key a write was aimed at
FullKey(l) == IF l.op = "vwrite" THEN Normalized(l.prefix) \o l.key ELSE l.key

InvalidKey(key) == \E i \in 1..Len(key) : key[i] \notin KEY_CHARS

\* a write of value v under the default adapter, through the store or a view
DefaultWrite(l) ==
    /\ l.op \in {"write", "vwrite"} /\ l.kind = "ok"
    /\ l.name = N_default

\* what two consecutive default writes v1, v2 to an absent key must leave
TwoWritesGive(d, k, v1, v2) ==
    /\ k \in DOMAIN d
    /\ d[k] = <<v1, v2>>
    /\ get_converter(d, k) = N_stringlist
           => SameResult(LConfig_getitem(d, k), [kind |-> "list", val |-> <<v1, v2>>])

\* C2 (as amended): writing non-empty v1 then non-empty v2 under the default
\* adapter to a key that was absent gives the raw list [v1, v2], and a read
\* through the stringlist converter returns [v1, v2].
C2_TwoWritesInOrder ==
    [][(/\ DefaultWrite(last) /\ last.before = <<>> /\ last.value # <<>>
        /\ DefaultWrite(last') /\ FullKey(last') = FullKey(last)
        /\ last'.value # <<>>)
           => TwoWritesGive(data', FullKey(last), last.value, last'.value)]_vars

\* C2 (as stated): the same for all values v1, v2, the empty one included
C2_Original ==
    [][(/\ DefaultWrite(last) /\ last.before = <<>>
        /\ DefaultWrite(last') /\ FullKey(last') = FullKey(last))
           => TwoWritesGive(data', FullKey(last), last.value, last'.value)]_vars

\* y then x were written to a.b, which .convert.a. reads through stringlist
C2_Witness ==
    /\ DefaultWrite(last) /\ last.op = "write" /\ last.key = K_a_b
    /\ last.before = <<<<"y">>>> /\ last.value = <<"x">>
    /\ data[K_a_b] = <<<<"y">>, <<"x">>>>
    /\ K_convert_a_dot \in DOMAIN data
    /\ data[K_convert_a_dot] = <<N_stringlist>>
    /\ LConfig_getitem(data, K_a_b).kind = "list"

\* C4: a write whose key holds a character outside a-z, 0-9, '.', '_'
\* raises ValueError on the store and on a view with any prefix, and the
\* store is left as it was.
C4_InvalidKeyRejected ==
    [][(last'.op \in {"write", "vwrite"} /\ InvalidKey(last'.key))
           => (last'.kind = "ValueError" /\ data' = data /\ order' = order)]_vars

\* a view write with an invalid key was rejected on a store that holds keys
C4_Witness ==
    /\ last.op = "vwrite" /\ InvalidKey(last.key) /\ last.prefix = <<"a">>
    /\ last.kind = "ValueError"
    /\ K_a_b \in DOMAIN data /\ <<"b">> \in DOMAIN data

\* the store keys that start with P, with P stripped, in store order
StrippedKeys(o, P) ==
    LET sel == SelectSeq(o, LAMBDA k : Len(k) >= Len(P) /\ SubSeq(k, 1, Len(P)) = P)
    IN  [i \in 1..Len(sel) |-> SubSeq(sel[i], Len(P) + 1, Len(sel[i]))]

C6_ViewReads ==
    /\ \A prefix \in ViewPrefixes :
           LET P == Normalized(prefix)
               p == LConfigProxy_init(prefix)
           IN  /\ \A k \in ViewKeys \cup ViewReadKeys :
                      /\ SameResult(LConfigProxy_getitem(data, p, k),
                                    LConfig_getitem(data, P \o k))
                      /\ LConfigProxy_contains(data, p, k) = LConfig_contains(data, P \o k)
                      /\ LConfigProxy_getitem(data, p, k).kind = "view"
                             => LConfigProxy_getitem(data, p, k).val = P \o k
               /\ LConfigProxy_iter(order, p) = StrippedKeys(LConfig_iter(order), P)
    /\ last.op = "vread"
           => SameResult(last, LConfig_getitem(data, Normalized(last.prefix) \o last.key))

C6_ViewWrites ==
    /\ last'.op = "vwrite" =>
           LET r == LConfig_setitem(data, order,
                                    Normalized(last'.prefix) \o last'.key, last'.value)
           IN  data' = r.data /\ order' = r.order /\ last'.kind = r.kind
    /\ last'.op = "vdelete" =>
           LET r == LConfig_delitem(data, order, Normalized(last'.prefix) \o last'.key)
           IN  data' = r.data /\ order' = r.order /\ last'.kind = r.kind

\* C6: a view with prefix p, normalised to end in '.' unless empty, reads,
\* tests, writes and deletes key k exactly as the store does p+k, iterates
\* the store keys that start with p with p stripped in store order, and a
\* view read from a view has the concatenation of both prefixes.
C6_ViewEqualsStore == []C6_ViewReads /\ [][C6_ViewWrites]_vars

\* the view built with prefix a wrote b while the store also holds the key b
C6_Witness ==
    /\ last.op = "vwrite" /\ last.prefix = <<"a">> /\ last.key = <<"b">>
    /\ last.kind = "ok"
    /\ order = <<<<"b">>, K_a_b>>
    /\ LConfigProxy_iter(order, LConfigProxy_init(<<"a">>)) = <<<<"b">>>>
    /\ LConfigProxy_getitem(data, LConfigProxy_init(<<>>), K_a_dot).kind = "view"

\* the converter name the claim resolves for a key
ConverterNameOf(d, key) ==
    IF IsMeta(key) THEN N_dot
    ELSE IF key = <<>> THEN N_default
    ELSE FirstCandidate(d, key, CONVERTER_PREFIX, N_default)

C7_ReadOutcome ==
    last.op = "read" =>
        IF last.key \in DOMAIN data
        THEN SameResult(last, apply_converter(ConverterNameOf(data, last.key),
                                              data[last.key]))
        ELSE IF last.key # <<>> /\ last.key[Len(last.key)] = "."
        THEN last.kind = "view" /\ last.val = last.key
        ELSE last.kind = "KeyError"

\* C7: a read returns the converter's result for a present key, a view with
\* prefix key for an absent key that ends in '.', and raises KeyError for
\* any other absent key; the store is unchanged in all three cases.
C7_ReadThreeWay ==
    /\ []C7_ReadOutcome
    /\ [][last'.op = "read" => (data' = data /\ order' = order)]_vars

\* the absent key a. was read while a.b is in the store
C7_Witness ==
    /\ last.op = "read" /\ last.key = K_a_dot
    /\ last.kind = "view" /\ last.val = K_a_dot
    /\ K_a_dot \notin DOMAIN data /\ K_a_b \in DOMAIN data

(***************************************************************************)
(* Properties of SpecLoad.                                                 *)
(***************************************************************************)
\* C5: every key in the store is a non-empty string of the characters
\* a-z, 0-9, '.', '_'.
C5_KeysValid ==
    \A k \in DOMAIN data : k # <<>> /\ ~InvalidKey(k)

(***************************************************************************)
(* Properties of SpecDefault.                                              *)
(***************************************************************************)
\* a write that append_default governed
AppendDefaultWrite(l) ==
    l.op = "write" /\ l.kind = "ok" /\ l.name = N_append_default

\* C11: under append_default an empty value replaces the raw list by the
\* single element d, the value of the most specific declaration for the key
\* in the .default namespace (the empty string when there is none), and a
\* read under the string converter returns d; a non-empty value is appended.
C11_AppendDefaultResets ==
    [][AppendDefaultWrite(last') =>
          LET k == last'.key
              dflt == FirstCandidate(data, k, DEFAULT_PREFIX, <<>>)
          IN  /\ k \in DOMAIN data'
              /\ IF last'.value = <<>>
                 THEN /\ data'[k] = <<dflt>>
                      /\ get_converter(data', k) \in {N_default, N_string}
                             => SameResult(LConfig_getitem(data', k),
                                           [kind |-> "str", val |-> dflt])
                 ELSE data'[k] = Append(get_values(data, k), last'.value)]_vars

\* an empty value reset a.b, which held two values, to the default declared
\* at .default.a. while the root .default. declares another one
C11_Witness ==
    /\ AppendDefaultWrite(last) /\ last.key = K_a_b /\ last.value = <<>>
    /\ Len(last.before) = 2
    /\ K_default_root \in DOMAIN data /\ data[K_default_root] = <<<<"x">>>>
    /\ K_default_a_dot \in DOMAIN data /\ data[K_default_a_dot] = <<<<"y">>>>
    /\ K_default_a_b \notin DOMAIN data
    /\ data[K_a_b] = <<<<"y">>>>

(***************************************************************************)
(* Properties of SpecListing.                                              *)
(***************************************************************************)
\* the positions that end a part of v: the commas and the end of v
PartEnds(v) == {i \in 1..Len(v) : v[i] = ","} \cup {Len(v) + 1}

\* the i-th part of v between commas
PartOf(v, i) ==
    LET e == CHOOSE x \in PartEnds(v) : Cardinality({y \in PartEnds(v) : y < x}) = i - 1
        before == {y \in PartEnds(v) : y < e}
        b == IF before = {} THEN 0 ELSE CHOOSE y \in before : \A z \in before : z <= y
    IN  SubSeq(v, b + 1, e - 1)

\* s from its first to its last character that is not whitespace
Trimmed(s) ==
    LET ns == {i \in 1..Len(s) : s[i] \notin Whitespace}
    IN  IF ns = {} THEN <<>>
        ELSE SubSeq(s, CHOOSE i \in ns : \A j \in ns : i <= j,
                       CHOOSE i \in ns : \A j \in ns : j <= i)

\* the trimmed parts of v that are not empty, in order
TrimmedParts(v) ==
    SelectSeq([i \in 1..Cardinality(PartEnds(v)) |-> Trimmed(PartOf(v, i))],
              LAMBDA t : t # <<>>)

ListingWrite(l) == l.op = "write" /\ l.kind = "ok" /\ l.name = N_listing

\* C12: under listing a write appends the trimmed non-empty parts of the
\* value between commas, in order, after the elements the list held;
\* '1,2, 3' on an absent key gives ['1','2','3']; a value without a
\* non-empty part leaves the store as it was.
C12_ListingAppendsParts ==
    [][ListingWrite(last') =>
          LET k == last'.key
              parts == TrimmedParts(last'.value)
              expected == get_values(data, k) \o parts
          IN  /\ IF expected = <<>> THEN k \notin DOMAIN data'
                 ELSE k \in DOMAIN data' /\ data'[k] = expected
              /\ parts = <<>> => (data' = data /\ order' = order)
              /\ (last'.value = T_1_2_3 /\ k \notin DOMAIN data)
                     => data'[k] = <<<<"1">>, <<"2">>, <<"3">>>>]_vars

\* '1,2, 3' was written to the absent key a.b
C12_Witness ==
    /\ ListingWrite(last) /\ last.key = K_a_b
    /\ last.value = T_1_2_3 /\ last.before = <<>>
    /\ data[K_a_b] = <<<<"1">>, <<"2">>, <<"3">>>>

\* a text of blanks and commas was written to a.b, which held a value
C12_WitnessNoPart ==
    /\ ListingWrite(last) /\ last.key = K_a_b
    /\ last.value = <<" ", ",", " ", ",">> /\ Len(last.before) = 1
    /\ data[K_a_b] = last.before

(***************************************************************************)
(* Properties of SpecInterp.                                               *)
(***************************************************************************)
\* what stands at position i of s: one character of text, '$$', a
\* reference $name or ${name} with name over the key characters, or a '$'
\* that starts none of these; next is the position after it
PieceAt(s, i) ==
    IF s[i] # "$"
    THEN [t |-> "text", text |-> <<s[i]>>, name |-> <<>>, next |-> i + 1]
    ELSE IF i < Len(s) /\ s[i + 1] = "$"
    THEN [t |-> "text", text |-> <<"$">>, name |-> <<>>, next |-> i + 2]
    ELSE IF i < Len(s) /\ s[i + 1] \in KEY_CHARS
    THEN LET e == CHOOSE j \in (i + 1)..Len(s) :
                      /\ \A m \in (i + 1)..j : s[m] \in KEY_CHARS
                      /\ (j = Len(s) \/ s[j + 1] \notin KEY_CHARS)
         IN  [t |-> "ref", text |-> <<>>, name |-> SubSeq(s, i + 1, e), next |-> e + 1]
    ELSE IF /\ i < Len(s) /\ s[i + 1] = "{"
            /\ \E j \in (i + 3)..Len(s) :
                   s[j] = "}" /\ \A m \in (i + 2)..(j - 1) : s[m] \in KEY_CHARS
    THEN LET j == CHOOSE x \in (i + 3)..Len(s) :
                      s[x] = "}" /\ \A m \in (i + 2)..(x - 1) : s[m] \in KEY_CHARS
         IN  [t |-> "ref", text |-> <<>>, name |-> SubSeq(s, i + 2, j - 1), next |-> j + 1]
    ELSE [t |-> "lone", text |-> <<"$">>, name |-> <<>>, next |-> i + 1]

\* the pieces of s from left to right
Pieces(s) ==
    LET f[i \in 1..(Len(s) + 1)] ==
            IF i > Len(s) THEN <<>> ELSE <<PieceAt(s, i)>> \o f[PieceAt(s, i).next]
    IN  f[1]

\* what a piece contributes: its text, the stringified read of its name, or
\* the error of that read; a lone '$' is kept or fails
Contribution(d, piece, loneFails) ==
    CASE piece.t = "text" -> [kind |-> "str", val |-> piece.text]
      [] piece.t = "ref" ->
             LET r == LConfig_getitem(d, piece.name)
             IN  IF r.kind \in {"str", "list", "view"}
                 THEN [kind |-> "str", val |-> py_str(r)]
                 ELSE r
      [] OTHER -> IF loneFails THEN [kind |-> "ValueError", val |-> <<>>]
                  ELSE [kind |-> "str", val |-> piece.text]

\* the contributions of the pieces concatenated, or the first error
Interpolated(d, s, loneFails) ==
    LET ps == Pieces(s)
        cs == [i \in 1..Len(ps) |-> Contribution(d, ps[i], loneFails)]
        bad == {i \in 1..Len(ps) : cs[i].kind # "str"}
    IN  IF bad = {} THEN [kind |-> "str", val |-> join([i \in 1..Len(ps) |-> cs[i].val], <<>>)]
        ELSE cs[CHOOSE i \in bad : \A j \in bad : i <= j]

\* the last operation read a present key through interpolate
InterpolateRead ==
    /\ last.op = "read" /\ last.name = N_interpolate
    /\ last.key \in DOMAIN data

LastValue(d, key) == d[key][Len(d[key])]

\* C13 (as amended): a read through interpolate returns the last raw value
\* with every $name and ${name} replaced by the stringified read of name
\* and every $$ by one $, the other text unchanged and the inserted text
\* not scanned again; an error of the read of a name is the error of the
\* read, and a '$' that starts no token makes the read raise ValueError.
C13_InterpolateSubstitutes ==
    InterpolateRead =>
        LET value == LastValue(data, last.key)
        IN  /\ SameResult(last, Interpolated(data, value, TRUE))
            /\ (/\ value = T_mixed /\ K_k \in DOMAIN data
                /\ get_converter(data, K_k) = N_default)
                   => (/\ last.kind = "str"
                       /\ last.val = <<"a">> \o LastValue(data, K_k) \o <<" ", "$", "k">>)

\* C13 (as stated): a '$' that starts no token is other text and is kept
C13_Original ==
    InterpolateRead =>
        SameResult(last, Interpolated(data, LastValue(data, last.key), FALSE))

\* 'a${k} $$k' was read while k holds '$$', which stays as it is
C13_Witness ==
    /\ InterpolateRead /\ last.key = K_g
    /\ LastValue(data, K_g) = T_mixed
    /\ K_k \in DOMAIN data /\ LastValue(data, K_k) = <<"$", "$">>
    /\ K_convert_k \notin DOMAIN data
    /\ last.kind = "str"
    /\ last.val = <<"a", "$", "$", " ", "$", "k">>

\* the first reference of s whose name is not a key of d comes after
\* pieces that are text or references that can be read
UnknownReferenceFirst(d, s) ==
    LET ps == Pieces(s)
    IN  \E i \in 1..Len(ps) :
            /\ ps[i].t = "ref" /\ ps[i].name \notin DOMAIN d
            /\ \A j \in 1..(i - 1) : Contribution(d, ps[j], TRUE).kind = "str"

\* C14: a read through interpolate of a value that references a name that
\* is not a key of the store, also a name that ends in '.', raises KeyError
\* and returns no text.
C14_UnknownReferenceRaises ==
    (InterpolateRead /\ UnknownReferenceFirst(data, LastValue(data, last.key)))
        => last.kind = "KeyError"

(***************************************************************************)
(* Properties of SpecText.                                                 *)
(***************************************************************************)
\* the key filter accepts the key: the callable says so, or none was given
\* and the key is not a meta key
Accepted(filter, key) ==
    IF filter = "none" THEN ~IsMeta(key) ELSE call_filter(filter, key)

\* the text holds a line for the key
HasLineFor(text, key) ==
    \E i \in 1..Len(splitlines(text)) :
        startswith(splitlines(text)[i], key \o <<" ", "=", " ">>)

\* C15: write_data emits no line for a key the supplied filter rejects, and
\* without a filter no line for a key that starts with '.'.
C15_FilteredKeysNotWritten ==
    last.op = "write_data" =>
        \A k \in DOMAIN data : ~Accepted(last.name, k) => ~HasLineFor(last.val, k)

\* the store that parsing the text line by line into an empty store gives
Reparsed(text) == StrictParser_read_data(<<>>, <<>>, splitlines(text), <<>>)

\* C16: the text write_data emits, parsed again line by line into an empty
\* store, gives every key that is not a meta key the raw list it has in the
\* store and no other such key.
C16_RoundTrip ==
    (last.op = "write_data" /\ last.name = "none") =>
        LET r == Reparsed(last.val)
        IN  /\ r.kind = "ok"
            /\ \A k \in DOMAIN data :
                   ~IsMeta(k) => (k \in DOMAIN r.data /\ r.data[k] = data[k])
            /\ \A k \in DOMAIN r.data : ~IsMeta(k) => k \in DOMAIN data

(***************************************************************************)
(* Properties of SpecAttr.                                                 *)
(***************************************************************************)
\* the name an attribute access asks the store for
AttrName(l) == IF l.op = "vgetattr" THEN Normalized(l.prefix) \o l.key ELSE l.key

\* some key of the store lies under the namespace n.
NamespacePresent(d, n) == \E k \in DOMAIN d : startswith(k, n \o <<".">>)

\* C17: attribute access to n returns or raises what read(n) does when the
\* key n is present, else returns the view n. when a key starts with n.,
\* else raises AttributeError; AttributeError is raised only when neither
\* the key nor a key under the namespace exists.
C17_GetAttrThreeWay ==
    last.op \in {"getattr", "vgetattr"} =>
        LET n == AttrName(last)
        IN  /\ IF n \in DOMAIN data THEN SameResult(last, LConfig_getitem(data, n))
               ELSE IF NamespacePresent(data, n)
               THEN last.kind = "view" /\ last.val = n \o <<".">>
               ELSE last.kind = "AttributeError"
            /\ last.kind = "AttributeError"
                   => (n \notin DOMAIN data /\ ~NamespacePresent(data, n))

(***************************************************************************)
(* C19 in SpecLoad.                                                        *)
(***************************************************************************)
\* C19: after read_dict every key of the store maps to a raw list with at
\* least one element, whatever the length of the sequence leaves.
C19_ReadDictKeepsListsNonEmpty ==
    last.op = "read_dict" => \A k \in DOMAIN data : data[k] # <<>>

(***************************************************************************)
(* C22 in SpecInterp.                                                      *)
(***************************************************************************)
\* the names whose read the conversion of key starts: the references of its
\* last value, up to the first piece that fails, when the key is read
\* through interpolate
NestedReads(d, key) ==
    IF key \in DOMAIN d /\ get_converter(d, key) = N_interpolate
    THEN LET ps == Pieces(LastValue(d, key))
         IN  {ps[i].name : i \in {j \in 1..Len(ps) :
                  /\ ps[j].t = "ref"
                  /\ \A m \in 1..(j - 1) : Contribution(d, ps[m], TRUE).kind = "str"}}
    ELSE {}

\* the names read, directly or through a chain, during the reads of S
RECURSIVE ReadsWithin(_, _, _)
ReadsWithin(d, S, n) ==
    IF n = 0 THEN S
    ELSE ReadsWithin(d, S \cup UNION {NestedReads(d, x) : x \in S}, n - 1)

\* C22: a read of k never leads to a nested read of k, directly or through
\* a chain of interpolated references, and so never ends in the error of
\* calls nested without end.
C22_NoNestedReadOfSameKey ==
    last.op = "read" =>
        /\ last.key \notin ReadsWithin(data, NestedReads(data, last.key),
                                       Cardinality(DOMAIN data))
        /\ last.kind # "RecursionError"

(***************************************************************************)
(* Further properties of Spec: concat, iteration order and the frame of a  *)
(* write.                                                                  *)
(***************************************************************************)
\* a write that concat governed
ConcatWrite(l) == l.op = "write" /\ l.kind = "ok" /\ l.name = N_concat

\* C21: under concat a non-empty value written to an absent key gives the
\* list of that one value, a non-empty value written to a list of one
\* element gives the list of the one element followed by the value, and a
\* read under the string converter returns it; an empty value changes
\* nothing and does not create the key.  Two non-empty values v1, v2
\* written to an absent key give the one element v1 + v2.
C21_ConcatKeepsOneElement ==
    [][/\ ConcatWrite(last') =>
              LET k == last'.key
                  before == get_values(data, k)
                  joined == IF before = <<>> THEN last'.value
                            ELSE before[1] \o last'.value
              IN  IF last'.value = <<>>
                  THEN data' = data /\ order' = order
                  ELSE Len(before) <= 1 =>
                           /\ k \in DOMAIN data' /\ data'[k] = <<joined>>
                           /\ get_converter(data', k) = N_default
                                  => SameResult(LConfig_getitem(data', k),
                                                [kind |-> "str", val |-> joined])
       /\ (/\ ConcatWrite(last) /\ last.before = <<>> /\ last.value # <<>>
           /\ ConcatWrite(last') /\ last'.key = last.key /\ last'.value # <<>>)
              => data'[last.key] = <<last.value \o last'.value>>]_vars

\* ',' was written under concat to a.b, which held the one value 'x'
C21_Witness ==
    /\ ConcatWrite(last) /\ last.key = K_a_b
    /\ last.before = <<<<"x">>>> /\ last.value = <<",">>
    /\ data[K_a_b] = <<<<"x", ",">>>>
    /\ SameResult(LConfig_getitem(data, K_a_b), [kind |-> "str", val |-> <<"x", ",">>])

\* the position of a key in the iteration, 0 when it is not iterated
PositionOf(o, key) ==
    IF \E i \in 1..Len(o) : o[i] = key THEN CHOOSE i \in 1..Len(o) : o[i] = key ELSE 0

\* iteration yields each present key exactly once
IteratesKeysOnce ==
    LET it == LConfig_iter(order)
    IN  /\ {it[i] : i \in 1..Len(it)} = DOMAIN data
        /\ \A i, j \in 1..Len(it) : it[i] = it[j] => i = j

\* a step keeps the relative order of the keys it keeps, keeps the position
\* of a present key that is written, and puts a new key last
KeepsFirstWriteOrder ==
    LET it == LConfig_iter(order)
        it2 == LConfig_iter(order')
    IN  /\ \A k1, k2 \in DOMAIN data \cap DOMAIN data' :
               PositionOf(it, k1) < PositionOf(it, k2)
                   => PositionOf(it2, k1) < PositionOf(it2, k2)
        /\ \A k \in DOMAIN data' \ DOMAIN data : PositionOf(it2, k) = Len(it2)
        /\ (last'.op = "write" /\ last'.key \in DOMAIN data /\ last'.key \in DOMAIN data')
               => PositionOf(it2, last'.key) = PositionOf(it, last'.key)

\* C23: iteration yields each present key once, in the order in which the
\* keys were first written; a write to a present key does not move it.
C23_IterationOrder == []IteratesKeysOnce /\ [][KeepsFirstWriteOrder]_vars

\* a.b, the first of three keys, was written again and got another list
C23_Witness ==
    /\ last.op = "write" /\ last.kind = "ok" /\ last.key = K_a_b
    /\ LConfig_iter(order) = <<K_a_b, K_a_dot, K_adapt_root>>
    /\ last.before # <<>> /\ data[K_a_b] # last.before

\* o without the key
Without(o, key) == SelectSeq(o, LAMBDA k : k # key)

\* C24: a write to k leaves the raw list of every other key, the set of the
\* other keys and their iteration order as they were.
C24_WriteChangesOnlyItsKey ==
    [][last'.op = "write" =>
          /\ DOMAIN data' \ {last'.key} = DOMAIN data \ {last'.key}
          /\ \A k \in DOMAIN data \ {last'.key} : data'[k] = data[k]
          /\ Without(LConfig_iter(order'), last'.key)
                 = Without(LConfig_iter(order), last'.key)]_vars

\* an empty value under append_delete removed a., the second of three keys
C24_Witness ==
    /\ last.op = "write" /\ last.kind = "ok" /\ last.name = N_append_delete
    /\ last.key = K_a_dot /\ last.value = <<>> /\ last.before # <<>>
    /\ LConfig_iter(order) = <<K_a_b, K_adapt_root>>

====
